---- MODULE Spec2Model ----
(***************************************************************************)
(* nbt-compress (src/src/main.rs): a command-line tool that recompresses   *)
(* gzip files in place.  The model follows main(): the argument loop, the  *)
(* empty-file-list check, the per-file loop around compress_file, and the  *)
(* final summary.  Command-line tokens are sequences of characters so that *)
(* starts_with, slicing and str::parse::<i32> are computed as the code     *)
(* computes them.  File contents are abstract byte strings: a sequence of  *)
(* layers, innermost first, each carrying the byte length of the string it *)
(* completes.  The gzip codecs (libdeflater, zopfli) are external          *)
(* libraries: the length of an encoder's output is chosen by an oracle     *)
(* that is memoised, so that each codec is a deterministic function.       *)
(* Wall-clock times (elapsed_time, total_time) are not modelled.           *)
(***************************************************************************)
EXTENDS Integers, Sequences, FiniteSets, TLC

VARIABLES
    args,              \* std::env::args(), args[1] is the program name
    index,             \* position of the argument loop (1-based)
    iterations,        \* main's `iterations`, -1 when unset
    use_zopfli,        \* main's `use_zopfli`
    files,             \* main's `files`
    fidx,              \* position of the file loop (1-based)
    total_saved_space, \* main's `total_saved_space`
    pc,                \* "parse", "process" or "done"
    exitCode,          \* process exit status, -1 while running
    msgs,              \* kinds of message printed by main in this run
    disk,              \* the filesystem: path -> contents, <<>> when absent
    disk0,             \* the filesystem before the first run
    log,               \* one record per call of compress_file
    memo,              \* the codecs' input/output relation seen so far
    run                \* number of the current invocation of the program

vars == <<args, index, iterations, use_zopfli, files, fidx, total_saved_space,
          pc, exitCode, msgs, disk, disk0, log, memo, run>>

----------------------------------------------------------------------------
(* Bounds of the model *)

\* most tokens after the program name on a command line of the option family
MaxArgs == 3
\* most file paths on a command line of the batch family
MaxBatch == 2
\* most invocations of the program on the same filesystem
MaxRuns == 2

----------------------------------------------------------------------------
(* Program constants *)

MaxI32 == 2147483647
MinI32 == -2147483647 - 1
Unset == -1
SizeThreshold == 20000
LargeIterations == 100
SmallIterations == 500
DeflateLevel == 9
PanicCode == 101
Limb == 2^16

----------------------------------------------------------------------------
(* Command-line tokens *)

ProgName        == <<"n", "b", "t">>
TokZ            == <<"-", "z">>
TokZopfli       == <<"-", "-", "z", "o", "p", "f", "l", "i">>
TokH            == <<"-", "h">>
TokHelp         == <<"-", "-", "h", "e", "l", "p">>
TokI            == <<"-", "i">>
TokIterations   == <<"-", "-", "i", "t", "e", "r", "a", "t", "i", "o", "n", "s">>
TokI5           == TokI \o <<"5">>
TokI0           == TokI \o <<"0">>
TokIMinus1      == TokI \o <<"-", "1">>
TokIMinus2      == TokI \o <<"-", "2">>
TokIBad         == TokI \o <<"x">>
TokIterationsEq5 == TokIterations \o <<"=", "5">>
TokIterations5  == TokIterations \o <<"5">>
TokFive         == <<"5">>
FileA           == <<"a">>
FileB           == <<"b">>

\* tokens of the option family: every documented and undocumented option form
OptionTokens ==
    {TokZ, TokZopfli, TokH, TokHelp, TokI, TokI5, TokIBad, TokIterations,
     TokIterationsEq5, TokIterations5, TokFive, FileA}

\* option prefixes of the batch family: encoder selection and iteration override
BatchOptions ==
    {<<>>, <<TokZ>>, <<TokZ, TokI5>>, <<TokZ, TokI0>>,
     <<TokZ, TokIMinus1>>, <<TokZ, TokIMinus2>>}

Paths == {FileA, FileB, TokFive}

StartsWith(s, p) == Len(s) >= Len(p) /\ SubSeq(s, 1, Len(p)) = p

\* s[n..] of the code (n a 0-based byte offset)
SliceFrom(s, n) == SubSeq(s, n + 1, Len(s))

DigitVal ==
    ("0" :> 0) @@ ("1" :> 1) @@ ("2" :> 2) @@ ("3" :> 3) @@ ("4" :> 4) @@
    ("5" :> 5) @@ ("6" :> 6) @@ ("7" :> 7) @@ ("8" :> 8) @@ ("9" :> 9)

ParseErr == [ok |-> FALSE, val |-> 0]

\* the digit loop of i32::from_str with its checked multiply and add/subtract
RECURSIVE ParseDigits(_, _, _, _)
ParseDigits(s, i, acc, neg) ==
    IF i > Len(s) THEN [ok |-> TRUE, val |-> acc]
    ELSE IF s[i] \notin DOMAIN DigitVal THEN ParseErr
    ELSE LET d == DigitVal[s[i]] IN
         IF neg
         THEN IF acc < -214748364 \/ acc * 10 < MinI32 + d
              THEN ParseErr
              ELSE ParseDigits(s, i + 1, acc * 10 - d, neg)
         ELSE IF acc > 214748364 \/ acc * 10 > MaxI32 - d
              THEN ParseErr
              ELSE ParseDigits(s, i + 1, acc * 10 + d, neg)

\* str::parse::<i32>: optional sign, at least one digit, no overflow
ParseI32(s) ==
    IF Len(s) = 0 THEN ParseErr
    ELSE IF s[1] \in {"+", "-"}
         THEN IF Len(s) = 1 THEN ParseErr
              ELSE ParseDigits(s, 2, 0, s[1] = "-")
         ELSE ParseDigits(s, 1, 0, FALSE)

\* parse_arg with unknown options let through as "no override"
parse_arg_Lenient(arg) ==
    IF StartsWith(arg, TokI) THEN ParseI32(SliceFrom(arg, 2))
    ELSE IF StartsWith(arg, TokIterations) THEN ParseI32(SliceFrom(arg, 12))
    ELSE [ok |-> TRUE, val |-> Unset]

parse_arg(arg) ==
    IF StartsWith(arg, TokI) THEN ParseI32(SliceFrom(arg, 2))
    ELSE IF StartsWith(arg, TokIterations) THEN ParseI32(SliceFrom(arg, 12))
    ELSE ParseErr

----------------------------------------------------------------------------
(* Byte strings and the gzip codecs *)

\* a u64 as four 16-bit limbs, most significant first
U64Zero == <<0, 0, 0, 0>>

\* `n as u64` for an i32 n: sign extension to 64 bits
AsU64(n) ==
    LET top == IF n < 0 THEN Limb - 1 ELSE 0
    IN  <<top, top, (n \div Limb) % Limb, n % Limb>>

RawLayer(n)         == [k |-> "raw", enc |-> "none", it |-> U64Zero, len |-> n]
GzLayer(enc, it, n) == [k |-> "gz", enc |-> enc, it |-> it, len |-> n]
CutLayer(n)         == [k |-> "cut", enc |-> "none", it |-> U64Zero, len |-> n]

NoFile     == <<>>
EmptyBytes == <<RawLayer(0)>>

ByteLen(b) == b[Len(b)].len

\* the first n bytes of b, n < ByteLen(b): what a failed write_all leaves
Prefix(b, n) == IF n = 0 THEN EmptyBytes ELSE Append(b, CutLayer(n))

\* whether the gzip decoder accepts the bytes
IsGzip(b) == b # NoFile /\ b[Len(b)].k = "gz"

Err == [ok |-> FALSE, val |-> NoFile]
Ok(v) == [ok |-> TRUE, val |-> v]

\* output lengths an encoder may produce, 0 standing for an encoder error
EncLens == {2000, 3000}
EncFail == 0
EncOutcomes == EncLens \cup {EncFail}

\* File::create fails; write_all fails before or after the first bytes; success
WriteOutcomes == {"ok", "create_err", "write_err_empty", "write_err_partial"}

read_file(d, path) == IF d[path] = NoFile THEN Err ELSE Ok(d[path])

\* the contents of the file after write_file, and whether it returned Ok
write_file(old, contents, w) ==
    CASE w = "ok"                -> [ok |-> TRUE, data |-> contents]
      [] w = "create_err"        -> [ok |-> FALSE, data |-> old]
      [] w = "write_err_empty"   -> [ok |-> FALSE, data |-> EmptyBytes]
      [] w = "write_err_partial" ->
            [ok |-> FALSE, data |-> Prefix(contents, ByteLen(contents) \div 2)]

decompress(data) ==
    IF IsGzip(data) THEN Ok(SubSeq(data, 1, Len(data) - 1)) ELSE Err

\* a codec call: encoder, effort, input and the outcome the oracle gave
Call(enc, it, input, out) == [enc |-> enc, it |-> it, input |-> input, out |-> out]

compress_libdeflater(data, level, out) ==
    LET call == Call("libdeflater", AsU64(level), data, out)
    IN  IF out = EncFail
        THEN [st |-> "err", val |-> NoFile, calls |-> {call}]
        ELSE [st |-> "ok", val |-> Append(data, GzLayer("libdeflater", AsU64(level), out)),
              calls |-> {call}]

\* iter is the u64 the caller passes; NonZeroU64::new(iter).unwrap() panics on 0
compress_zopfli(stuff, iter, out) ==
    IF iter = U64Zero
    THEN [st |-> "panic", val |-> NoFile, calls |-> {}]
    ELSE LET call == Call("zopfli", iter, stuff, out)
         IN  IF out = EncFail
             THEN [st |-> "err", val |-> NoFile, calls |-> {call}]
             ELSE [st |-> "ok", val |-> Append(stuff, GzLayer("zopfli", iter, out)),
                   calls |-> {call}]

\* ChooseIter with the threshold comparison off by one
ChooseIter_AtThreshold(force_iterations, size) ==
    IF force_iterations # Unset THEN force_iterations
    ELSE IF size >= SizeThreshold THEN LargeIterations
    ELSE SmallIterations

\* the `iter` of optimise_zopfli, an i32
ChooseIter(force_iterations, size) ==
    IF force_iterations # Unset THEN force_iterations
    ELSE IF size > SizeThreshold THEN LargeIterations
    ELSE SmallIterations

NoIter == <<>>

optimise_zopfli(input, force_iterations, out) ==
    LET d == decompress(input) IN
    IF ~d.ok
    THEN [st |-> "err", val |-> NoFile, calls |-> {}, iter |-> NoIter, size |-> -1]
    ELSE LET iter == AsU64(ChooseIter(force_iterations, ByteLen(d.val)))
             c    == compress_zopfli(d.val, iter, out)
         IN  [st    |-> IF c.st = "panic" THEN "panic" ELSE "ok",
              val   |-> IF c.st = "ok" THEN c.val ELSE input,
              calls |-> c.calls, iter |-> iter, size |-> ByteLen(d.val)]

----------------------------------------------------------------------------
(* compress_file *)

\* ShouldWrite with a stream of equal length written too
ShouldWrite_OrEqual(newLen, oldLen) == newLen <= oldLen

\* the comparison that guards the overwrite
ShouldWrite(newLen, oldLen) == newLen < oldLen

\* What one call of compress_file does to the file `file` of filesystem d.
\* `out` is the encoder's outcome and `w` the outcome of the write, should
\* either be asked for.  The result names the outcome, the Result returned
\* (ok, saved), the contents of the file afterwards and the codec calls made.
compress_file(d, file, iters, zopfli, out, w) ==
    LET rd == read_file(d, file)
        contents == rd.val
        base == [outcome |-> "read_error", ok |-> FALSE, saved |-> 0,
                 after |-> d[file], wrote |-> FALSE, produced |-> NoFile,
                 calls |-> {}, iter |-> NoIter, size |-> -1]
    IN
    IF ~rd.ok THEN base
    ELSE
    LET enc == IF zopfli
               THEN optimise_zopfli(contents, iters, out)
               ELSE compress_libdeflater(contents, DeflateLevel, out)
                        @@ [iter |-> NoIter, size |-> -1]
        seen == [base EXCEPT !.calls = enc.calls, !.iter = enc.iter,
                             !.size = enc.size]
    IN
    IF enc.st = "panic" THEN [seen EXCEPT !.outcome = "panic"]
    ELSE IF enc.st = "err" THEN [seen EXCEPT !.outcome = "compress_error"]
    ELSE
    LET optimized_contents == enc.val IN
    IF ShouldWrite(ByteLen(optimized_contents), ByteLen(contents))
    THEN LET wr == write_file(contents, optimized_contents, w) IN
         IF ~wr.ok
         THEN [seen EXCEPT !.outcome = "write_error", !.after = wr.data,
                           !.wrote = TRUE, !.produced = optimized_contents]
         ELSE [seen EXCEPT !.outcome = "compressed", !.ok = TRUE,
                           !.saved = ByteLen(contents) - ByteLen(optimized_contents),
                           !.after = wr.data, !.wrote = TRUE,
                           !.produced = optimized_contents]
    ELSE [seen EXCEPT !.outcome = "unchanged", !.ok = TRUE,
                      !.produced = optimized_contents]

\* the codecs are functions: a call seen before gives the outcome it gave
Deterministic(calls) ==
    \A c \in calls : \A m \in memo :
        (m.enc = c.enc /\ m.it = c.it /\ m.input = c.input) => m.out = c.out

----------------------------------------------------------------------------
(* main *)

\* one iteration of the argument loop on token arg
ArgStep(arg, its, zop, fs) ==
    LET same == [err |-> FALSE, iterations |-> its, use_zopfli |-> zop, files |-> fs] IN
    IF arg = TokZ \/ arg = TokZopfli THEN [same EXCEPT !.use_zopfli = TRUE]
    ELSE IF StartsWith(arg, <<"-">>)
         THEN LET r == parse_arg(arg) IN
              IF r.ok THEN [same EXCEPT !.iterations = r.val]
              ELSE [same EXCEPT !.err = TRUE]
         ELSE [same EXCEPT !.files = Append(fs, arg)]

SeqsUpTo(S, n) == UNION {[1..k -> S] : k \in 0..n}

PayloadSmall == <<RawLayer(SizeThreshold)>>
PayloadLarge == <<RawLayer(SizeThreshold + 1)>>
GzOrig(p, n) == Append(p, GzLayer("orig", U64Zero, n))

\* the filesystem of the option family
OptionDisk == (FileA :> GzOrig(PayloadSmall, 3500)) @@ (FileB :> <<RawLayer(2500)>>)
                 @@ (TokFive :> NoFile)

\* the filesystems of the batch family
BatchDisks ==
    {(FileA :> a) @@ (FileB :> b) @@ (TokFive :> NoFile) :
        a \in {NoFile, GzOrig(PayloadSmall, 3500), GzOrig(PayloadLarge, 3500)},
        b \in {<<RawLayer(2500)>>}}

\* the state main starts in, whatever the command line and the filesystem
Start ==
    /\ disk0 = disk
    /\ index = 1
    /\ iterations = Unset
    /\ use_zopfli = FALSE
    /\ files = <<>>
    /\ fidx = 1
    /\ total_saved_space = 0
    /\ pc = "parse"
    /\ exitCode = -1
    /\ msgs = {}
    /\ log = <<>>
    /\ memo = {}
    /\ run = 1

\* batch family: an option prefix, then file paths, on varied filesystems
Init ==
    /\ args \in {<<ProgName>> \o o \o f :
                    o \in BatchOptions,
                    f \in SeqsUpTo({FileA, FileB}, MaxBatch) \ {<<>>}}
    /\ disk \in BatchDisks
    /\ Start

\* option family: every sequence of option and path tokens, on one filesystem
InitCli ==
    /\ args \in {<<ProgName>> \o s : s \in SeqsUpTo(OptionTokens, MaxArgs)}
    /\ disk = OptionDisk
    /\ Start

\* one iteration of `for (index, arg) in args.iter().enumerate()`
ParseArg ==
    /\ pc = "parse"
    /\ index <= Len(args)
    /\ LET r == IF index = 1
                THEN [err |-> FALSE, iterations |-> iterations,
                      use_zopfli |-> use_zopfli, files |-> files]
                ELSE ArgStep(args[index], iterations, use_zopfli, files)
       IN  /\ iterations' = r.iterations
           /\ use_zopfli' = r.use_zopfli
           /\ files' = r.files
           /\ IF r.err
              THEN /\ msgs' = msgs \cup {"argerr"}
                   /\ pc' = "done"
                   /\ exitCode' = 1
                   /\ index' = index
              ELSE /\ index' = index + 1
                   /\ UNCHANGED <<msgs, pc, exitCode>>
    /\ UNCHANGED <<args, fidx, total_saved_space, disk, disk0, log, memo, run>>

\* the end of the argument loop: `if files.is_empty()`
CheckFiles ==
    /\ pc = "parse"
    /\ index > Len(args)
    /\ IF files = <<>>
       THEN /\ msgs' = msgs \cup {"usage"}
            /\ pc' = "done"
            /\ exitCode' = 1
       ELSE /\ pc' = "process"
            /\ UNCHANGED <<msgs, exitCode>>
    /\ UNCHANGED <<args, index, iterations, use_zopfli, files, fidx,
                   total_saved_space, disk, disk0, log, memo, run>>

\* one iteration of `for file in &files`: a whole call of compress_file
ProcessFile ==
    /\ pc = "process"
    /\ fidx <= Len(files)
    /\ \E out \in EncOutcomes, w \in WriteOutcomes :
          LET file == files[fidx]
              r == compress_file(disk, file, iterations, use_zopfli, out, w)
          IN  /\ Deterministic(r.calls)
              /\ memo' = memo \cup r.calls
              /\ disk' = [disk EXCEPT ![file] = r.after]
              /\ log' = Append(log,
                    [run |-> run, file |-> file, before |-> disk[file],
                     after |-> r.after, outcome |-> r.outcome, saved |-> r.saved,
                     wrote |-> r.wrote, produced |-> r.produced,
                     iter |-> r.iter, size |-> r.size])
              /\ IF r.outcome = "panic"
                 THEN /\ pc' = "done"
                      /\ exitCode' = PanicCode
                      /\ UNCHANGED <<fidx, total_saved_space>>
                 ELSE /\ fidx' = fidx + 1
                      /\ total_saved_space' =
                            total_saved_space + (IF r.ok THEN r.saved ELSE 0)
                      /\ UNCHANGED <<pc, exitCode>>
    /\ UNCHANGED <<args, index, iterations, use_zopfli, files, msgs, disk0, run>>

\* the end of the file loop: the summary, and main returns
Finish ==
    /\ pc = "process"
    /\ fidx > Len(files)
    /\ msgs' = IF Len(files) > 1 THEN msgs \cup {"summary"} ELSE msgs
    /\ pc' = "done"
    /\ exitCode' = 0
    /\ UNCHANGED <<args, index, iterations, use_zopfli, files, fidx,
                   total_saved_space, disk, disk0, log, memo, run>>

\* the same command line is run again on the filesystem the last run left
Rerun ==
    /\ pc = "done"
    /\ run < MaxRuns
    /\ run' = run + 1
    /\ index' = 1
    /\ iterations' = Unset
    /\ use_zopfli' = FALSE
    /\ files' = <<>>
    /\ fidx' = 1
    /\ total_saved_space' = 0
    /\ pc' = "parse"
    /\ exitCode' = -1
    /\ msgs' = {}
    /\ UNCHANGED <<args, disk, disk0, log, memo>>

Next == ParseArg \/ CheckFiles \/ ProcessFile \/ Finish \/ Rerun

Spec == Init /\ [][Next]_vars

SpecCli == InitCli /\ [][Next]_vars

----------------------------------------------------------------------------
(* Vocabulary of the properties, stated from the command line and the log *)

Digits == {"0", "1", "2", "3", "4", "5", "6", "7", "8", "9"}

\* a decimal integer of at most nine digits with an optional sign
IsIntLiteral(s) ==
    /\ Len(s) >= 1
    /\ LET body == IF s[1] \in {"+", "-"} THEN Tail(s) ELSE s
       IN  /\ Len(body) \in 1..9
           /\ \A i \in 1..Len(body) : body[i] \in Digits

\* a decimal integer greater than zero
IsPositiveLiteral(s) ==
    /\ IsIntLiteral(s)
    /\ s[1] # "-"
    /\ \E i \in 1..Len(s) : s[i] \in Digits \ {"0"}

IsOption(t) == Len(t) >= 1 /\ t[1] = "-"
IsZFlag(t) == t \in {TokZ, TokZopfli}
IsHelpFlag(t) == t \in {TokH, TokHelp}

\* an option token the program does not accept
BadOption(t) ==
    /\ IsOption(t)
    /\ ~IsZFlag(t)
    /\ ~ \E pre \in {TokI, TokIterations} :
            StartsWith(t, pre) /\ IsIntLiteral(SubSeq(t, Len(pre) + 1, Len(t)))

UserArgs == Tail(args)
HasBadOption == \E i \in 2..Len(args) : BadOption(args[i])
HasHelp == \E i \in 2..Len(args) : IsHelpFlag(args[i])
ZSelected == \E i \in 2..Len(args) : IsZFlag(args[i])
Positionals == SelectSeq(UserArgs, LAMBDA t : ~IsOption(t))

\* positions of the iteration options of the command line
IterPositions == {i \in 2..Len(args) : IsOption(args[i]) /\ ~IsZFlag(args[i])}
Max(S) == CHOOSE x \in S : \A y \in S : y <= x

\* the iteration count given on the command line, if one is
Override ==
    IF IterPositions = {} THEN [set |-> FALSE, val |-> 0]
    ELSE [set |-> TRUE, val |-> parse_arg(args[Max(IterPositions)]).val]

Entries == {log[i] : i \in DOMAIN log}
Succeeded(e) == e.outcome \in {"compressed", "unchanged"}
PayloadOf(b) == SubSeq(b, 1, Len(b) - 1)
SizeOnDisk(b) == IF b = NoFile THEN 0 ELSE ByteLen(b)

\* the paths compress_file was called on in the current run, in order
StartedThisRun ==
    LET mine == SelectSeq(log, LAMBDA e : e.run = run)
    IN  [i \in 1..Len(mine) |-> mine[i].file]

----------------------------------------------------------------------------
(* Properties *)

\* C1 (as the specification states it): whenever compress_file returns Ok
\* for a file that held a valid gzip stream, the file still holds a valid
\* gzip stream and it decodes to the payload the original bytes decoded to,
\* with or without -z.
C1_RoundTrip ==
    \A e \in Entries :
        (IsGzip(e.before) /\ Succeeded(e)) =>
            /\ IsGzip(e.after)
            /\ PayloadOf(e.after) = PayloadOf(e.before)

\* C2: no call of compress_file leaves a file longer than it found it, the
\* write happens only when the new stream is strictly shorter than the bytes
\* read, and a file that is not written keeps its bytes; hence no file is
\* ever longer than it was before the first run.
C2_NonGrowth ==
    /\ \A e \in Entries :
          /\ SizeOnDisk(e.after) <= SizeOnDisk(e.before)
          /\ e.wrote => ByteLen(e.produced) < ByteLen(e.before)
          /\ ~e.wrote => e.after = e.before
          /\ (e.before = NoFile) = (e.after = NoFile)
    /\ \A p \in Paths : SizeOnDisk(disk[p]) <= SizeOnDisk(disk0[p])

\* C2 witness: a file was overwritten by a shorter stream, and another write
\* failed half way
C2_Witness ==
    /\ \E e \in Entries : e.outcome = "compressed" /\ e.after = e.produced
                          /\ ByteLen(e.after) < ByteLen(e.before)
    /\ \E e \in Entries : e.outcome = "write_error" /\ e.after # e.before

\* C3 (as the specification states it): a file that exists and does not hold
\* a valid gzip stream is never written, with or without -z: the call ends
\* unchanged with nothing saved, or with an error.
C3_NonGzipUntouched ==
    \A e \in Entries :
        (e.before # NoFile /\ ~IsGzip(e.before)) =>
            /\ ~e.wrote
            /\ e.after = e.before
            /\ e.saved = 0
            /\ e.outcome \in {"unchanged", "compress_error"}

\* C4 (as the specification states it): with -h or --help on the command
\* line the program prints the usage text, exits with code 0 and reads or
\* writes no file.
C4_HelpExitsZero ==
    (HasHelp /\ pc = "done") =>
        /\ exitCode = 0
        /\ "usage" \in msgs
        /\ log = <<>>
        /\ disk = disk0

\* C5 (as the specification states it): the process ends with exit code 0 or
\* 1, and with 1 exactly when no file path was supplied or an option failed
\* to parse, for every iteration value that parses, 0 and negatives included.
C5_ExitCodes ==
    pc = "done" =>
        /\ exitCode \in {0, 1}
        /\ (exitCode = 1) = (HasBadOption \/ Positionals = <<>>)

\* what `n as u64` must be for the count to be exactly n
ExactU64(n) == <<0, 0, n \div 65536, n % 65536>>

\* C6 (as the specification states it): when the iterative encoder is called,
\* it is called with exactly N if a count N was given on the command line,
\* whatever its sign, and with 100 or 500 by the payload size otherwise.
C6_IterationExact ==
    \A e \in Entries :
        e.iter # NoIter =>
            IF Override.set
            THEN Override.val >= 0 /\ e.iter = ExactU64(Override.val)
            ELSE e.iter = ExactU64(IF e.size > 20000 THEN 100 ELSE 500)

\* C6 (amended): compress_zopfli is called exactly for the files that decode
\* when -z is given, and the count it is passed is a function of the override
\* and the payload size S alone: N itself for a given N >= 0, N + 2^64 for a
\* given N < -1, and, when no count or the count -1 is given, 100 if
\* S > 20000 and 500 otherwise.
C6_IterationPolicy ==
    \A e \in Entries :
        /\ (e.iter # NoIter) = (ZSelected /\ IsGzip(e.before))
        /\ e.iter # NoIter =>
              /\ e.size = ByteLen(PayloadOf(e.before))
              /\ IF Override.set /\ Override.val # -1
                 THEN IF Override.val >= 0
                      THEN e.iter = ExactU64(Override.val)
                      ELSE /\ e.iter[1] = 65535
                           /\ e.iter[2] = 65535
                           /\ (e.iter[3] - 65536) * 65536 + e.iter[4] = Override.val
                 ELSE e.iter = ExactU64(IF e.size > 20000 THEN 100 ELSE 500)

\* C6 witness: with -i5 the encoder was called with 5 on a payload of 20001
\* bytes, above the threshold, and the file was overwritten
C6_Witness ==
    \E e \in Entries :
        /\ Override.set /\ Override.val = 5
        /\ e.iter = ExactU64(5) /\ e.size = 20001
        /\ e.outcome = "compressed"

\* C7 (as the specification states it): once the arguments have parsed, the
\* run ends with compress_file called once on every file path of the command
\* line, in command-line order, whatever happened to the files before it.
C7_BatchIsolation ==
    (pc = "done" /\ ~HasBadOption /\ Positionals # <<>>) =>
        StartedThisRun = Positionals

\* C8 (as the specification states it): after a run in which every file was
\* processed without error, a second run with the same options writes no file
\* and saves nothing, with or without -z.
C8_Idempotent ==
    (\A e \in Entries : e.run = 1 => Succeeded(e)) =>
        \A e \in Entries :
            e.run = 2 => (~e.wrote /\ e.after = e.before /\ e.saved = 0)

\* C9: when some option token of the command line does not parse, wherever
\* it stands, no file is read or written at any time, and the process ends
\* with exit code 1.
C9_ArgErrorBeforeIO ==
    HasBadOption =>
        /\ log = <<>>
        /\ disk = disk0
        /\ memo = {}
        /\ pc = "done" => (exitCode = 1 /\ "argerr" \in msgs)

\* C9 witness: the run ended on a bad option that stands between two paths
\* of an existing file
C9_Witness ==
    /\ pc = "done"
    /\ exitCode = 1
    /\ "argerr" \in msgs
    /\ \E i, j, k \in 2..Len(args) :
          /\ i < j /\ j < k
          /\ args[i] = FileA /\ BadOption(args[j]) /\ args[k] = FileA
    /\ disk[FileA] # NoFile

\* the token at position j opens a documented form of the iteration option
\* for a positive N: -i N, -iN, --iterations N or --iterations=N
DocumentedForm(j) ==
    \/ /\ args[j] \in {TokI, TokIterations}
       /\ j < Len(args)
       /\ IsPositiveLiteral(args[j + 1])
    \/ StartsWith(args[j], TokI) /\ IsPositiveLiteral(SliceFrom(args[j], 2))
    \/ /\ StartsWith(args[j], TokIterations \o <<"=">>)
       /\ IsPositiveLiteral(SliceFrom(args[j], 13))

\* C10 (as the specification states it): no documented form of the iteration
\* option is refused with an argument error, and the N of a two-token form is
\* not taken for a file path.
C10_IterationForms ==
    /\ "argerr" \in msgs => ~DocumentedForm(index)
    /\ \A j \in 2..(Len(args) - 1) :
          (args[j] \in {TokI, TokIterations} /\ IsPositiveLiteral(args[j + 1])
              /\ index > j + 1)
          => Len(files) < Len(SelectSeq(SubSeq(args, 2, j + 1),
                                        LAMBDA t : ~IsOption(t)))

====
